---- MODULE Spec2Model ----
(***************************************************************************)
(* Model of taskindicator/database.py: the raw database parser             *)
(* (Tasks.load_data), the export merger (Tasks.merge_exported), the task   *)
(* collection (Tasks.__init__), the note store (Task.set_note/get_note)    *)
(* and the caching facade (Database).                                      *)
(*                                                                         *)
(* Text is modelled as a sequence of atoms (a character such as "," or     *)
(* ":" or an indivisible word such as "u1"); a shell word of a database    *)
(* line is such a sequence.                                                *)
(***************************************************************************)
EXTENDS Integers, Sequences, FiniteSets, TLC

VARIABLES
  pending,      \* pending.data: [exists, lines]
  completed,    \* completed.data: [exists, lines]
  _tasks,       \* Database._tasks: NoColl (None) or a Tasks object
  nloads,       \* Tasks objects constructed so far (identity of the next one)
  discarded,    \* identities of the Tasks objects dropped from Database._tasks
  notes,        \* the note store: [folder, files]
  lastNote,     \* uuid -> the note of the last set_note that returned
  op,           \* the operation whose result is at hand, "idle" when none
  inp,          \* its arguments and what the command runner answered it
  ret,          \* what it returned
  err,          \* the exception it raised, NoErr when it returned
  io,           \* the requests and file reads it made, in order
  clock,        \* the time of day, in the units of a modification time
  mtime,        \* st_mtime of pending.data
  ts,           \* the time the poller noted at its last refresh
  ver,          \* the times pending.data has been rewritten
  seen          \* the rewrite of pending.data that Database._tasks was loaded after

vars == <<pending, completed, _tasks, nloads, discarded, notes, lastNote,
          op, inp, ret, err, io, clock, mtime, ts, ver, seen>>

\* the clock, the modification time and what the poller follows them with
pollvars == <<clock, mtime, ts, ver, seen>>

\* ------------------------------------------------------------------ bounds
MaxLoads == 3      \* Tasks() constructions followed in one behaviour
MaxLines == 2      \* lines of a database file
MaxProps == 2      \* properties handed to update_task and add_task
MaxTagLen == 3     \* characters of a raw tags value
MaxNoteLen == 2    \* characters of a note
MaxExport == 2     \* entries of an export array
MaxClock == 3      \* readings of the clock
MaxWrites == 2     \* rewrites of the pending file followed under the poller

\* ------------------------------------------------------------- text helpers
RECURSIVE IndexOf(_, _, _)
\* position of the first atom c in s at or after i, 0 when there is none
IndexOf(s, c, i) ==
  IF i > Len(s) THEN 0
  ELSE IF s[i] = c THEN i
  ELSE IndexOf(s, c, i + 1)

RECURSIVE Split(_, _)
\* str.split(c): every piece between separators, empty pieces included
Split(s, c) ==
  LET i == IndexOf(s, c, 1)
  IN IF i = 0 THEN <<s>>
     ELSE <<SubSeq(s, 1, i - 1)>> \o Split(SubSeq(s, i + 1, Len(s)), c)

RECURSIVE Unescape(_)
\* v.replace("\/", "/")
Unescape(v) ==
  IF Len(v) < 2 THEN v
  ELSE IF v[1] = "\\" /\ v[2] = "/"
       THEN <<"/">> \o Unescape(SubSeq(v, 3, Len(v)))
       ELSE <<v[1]>> \o Unescape(Tail(v))

Whitespace == {" ", "\n", "\t"}

RECURSIVE LStrip(_)
LStrip(s) == IF s # <<>> /\ Head(s) \in Whitespace THEN LStrip(Tail(s)) ELSE s

RECURSIVE RStrip(_)
RStrip(s) ==
  IF s # <<>> /\ s[Len(s)] \in Whitespace THEN RStrip(SubSeq(s, 1, Len(s) - 1))
  ELSE s

\* str.strip()
Strip(s) == RStrip(LStrip(s))

\* UTF-8: the one character outside ASCII that texts here may hold takes the
\* two bytes C3 A9, every other character is its own byte
NonAscii == "U+00E9"

RECURSIVE Utf8Encode(_)
\* unicode.encode("utf-8")
Utf8Encode(s) ==
  IF s = <<>> THEN <<>>
  ELSE (IF Head(s) = NonAscii THEN <<"C3", "A9">> ELSE <<Head(s)>>)
       \o Utf8Encode(Tail(s))

RECURSIVE Utf8Valid(_)
Utf8Valid(b) ==
  IF b = <<>> THEN TRUE
  ELSE IF Head(b) = "C3" THEN Len(b) >= 2 /\ b[2] = "A9" /\ Utf8Valid(SubSeq(b, 3, Len(b)))
  ELSE Head(b) # "A9" /\ Utf8Valid(Tail(b))

RECURSIVE Utf8Decode(_)
\* str.decode("utf-8") of bytes that are valid UTF-8
Utf8Decode(b) ==
  IF b = <<>> THEN <<>>
  ELSE IF Head(b) = "C3" THEN <<NonAscii>> \o Utf8Decode(SubSeq(b, 3, Len(b)))
  ELSE <<Head(b)>> \o Utf8Decode(Tail(b))

\* ------------------------------------------------------------ Task (a dict)
EmptyTask == [k \in {} |-> <<>>]

\* dict assignment task[k] = v
Put(task, k, v) ==
  [x \in DOMAIN task \cup {k} |-> IF x = k THEN v ELSE task[x]]

\* Task.__getitem__ for the identity key: the value, or None when absent
NoUuid == <<>>
UuidOf(task) == IF "uuid" \in DOMAIN task THEN task["uuid"] ELSE NoUuid

\* ------------------------------------------------------------- Record parser
\* A line of a database file: open/close say whether its first character is
\* "[" and its last non-blank character is "]", ws whether blanks follow the
\* last non-blank character, body is the shell words in between.
BlankLine == [open |-> FALSE, body |-> <<>>, close |-> FALSE, ws |-> FALSE]

IsBlank(l) == ~l.open /\ ~l.close /\ l.body = <<>>

RECURSIVE DropTrailingBlank(_)
DropTrailingBlank(lines) ==
  IF lines = <<>> THEN <<>>
  ELSE IF IsBlank(lines[Len(lines)])
       THEN DropTrailingBlank(SubSeq(lines, 1, Len(lines) - 1))
       ELSE lines

\* raw_data.rstrip().split("\n")
SplitLines(lines) ==
  LET kept == DropTrailingBlank(lines)
  IN IF kept = <<>> THEN <<BlankLine>>
     ELSE [i \in 1..Len(kept) |->
             IF i = Len(kept) THEN [kept[i] EXCEPT !.ws = FALSE] ELSE kept[i]]

\* line.startswith("[") and line.endswith("]")
WellFormed(l) == l.open /\ l.close /\ ~l.ws

\* one shell word kw of a line, applied to the task being built
\* the key is the text before the first ":"; every key of the lines below is a
\* single atom, so the last branch is never taken
ParseToken(task, kw) ==
  LET i == IndexOf(kw, ":", 1)
      k == SubSeq(kw, 1, i - 1)
      v == Unescape(SubSeq(kw, i + 1, Len(kw)))
  IN IF i = 0 THEN task
     ELSE IF k = <<"tags">> THEN Put(task, "tags", Split(v, ","))
     ELSE IF Len(k) = 1 THEN Put(task, k[1], v)
     ELSE task

RECURSIVE ParseTokens(_, _)
ParseTokens(task, body) ==
  IF body = <<>> THEN task
  ELSE ParseTokens(ParseToken(task, Head(body)), Tail(body))

ParseLine(l) == ParseTokens(EmptyTask, l.body)

\* ------------------------------------------------------------ Export merger
\* an urgency as carried by the JSON export, and float() of it
Float(u) == [type |-> "float", val |-> u.val]

RECURSIVE ExportLookup(_, _)
\* the dict _tasks built from the export array; the last entry of a uuid wins
ExportLookup(arr, uuid) ==
  IF arr = <<>> THEN [found |-> FALSE, hasUrgency |-> FALSE, urgency |-> [type |-> "int", val |-> 0]]
  ELSE LET e == arr[Len(arr)]
       IN IF e.uuid = uuid
          THEN [found |-> TRUE, hasUrgency |-> e.hasUrgency, urgency |-> e.urgency]
          ELSE ExportLookup(SubSeq(arr, 1, Len(arr) - 1), uuid)

MergeOne(task, arr) ==
  LET e == ExportLookup(arr, UuidOf(task))
  IN IF e.found /\ e.hasUrgency THEN Put(task, "urgency", Float(e.urgency))
     ELSE task

\* a merge that keeps only the records the export knows
MergeExportedDropping(tasks, arr) ==
  SelectSeq([i \in 1..Len(tasks) |-> MergeOne(tasks[i], arr)],
            LAMBDA t : ExportLookup(arr, UuidOf(t)).found)

\* the loop of Tasks.merge_exported over the records, arr being the parsed
\* export array
MergeExported(tasks, arr) == [i \in 1..Len(tasks) |-> MergeOne(tasks[i], arr)]

\* ------------------------------------------------- I/O done by one operation
\* an entry of the log of one operation: a request handed to the command
\* runner (a = its argument list) or a read of a database file (a = its name)
Cmd(args) == [t |-> "cmd", a |-> args]
Read(name) == [t |-> "read", a |-> << <<name>> >>]

ShowCmd == Cmd(<< <<"task">>, <<"_show">> >>)
ExportCmd == Cmd(<< <<"task">>, <<"rc.json.array=1">>, <<"export">> >>)

\* an exception: its class and what it is about
NoErr == [kind |-> "", what |-> ""]
RunnerError == [kind |-> "RuntimeError", what |-> "command"]
ConfigError == [kind |-> "NameError", what |-> "RuntimeException"]
FormatError(name) == [kind |-> "ValueError", what |-> name]
PreconditionError == [kind |-> "RuntimeError", what |-> "no uuid"]
NoteTypeError == [kind |-> "ValueError", what |-> "note"]
DecodeError == [kind |-> "UnicodeDecodeError", what |-> "note"]

MkdirEv == [t |-> "mkdir", a |-> << <<"notes">> >>]
ReadNote(u) == [t |-> "readnote", a |-> <<u>>]
WriteNote(u, bytes) == [t |-> "write", a |-> <<u, bytes>>]
Unlink(u) == [t |-> "unlink", a |-> <<u>>]

\* get_database_folder: show is what the runner answers to `task _show`
\* ("fail", "nolocation": no data.location line, "ok")
GetDatabaseFolder(show) ==
  [err |-> IF show = "fail" THEN RunnerError
           ELSE IF show = "nolocation" THEN ConfigError ELSE NoErr,
   io |-> <<ShowCmd>>]

\* ---------------------------------------------------------------- Note store
\* The store st is [folder: the notes folder exists, files: uuid -> note file].
\* A note handed to set_note is [type: "unicode" | "str" | "other", s]: s is
\* the characters of a unicode object and the bytes of a str.
NoNote == [exists |-> FALSE, bytes |-> <<>>]
NoteFile(bytes) == [exists |-> TRUE, bytes |-> bytes]

\* Database._tasks: None, or the Tasks object of identity id
NoColl == [loaded |-> FALSE, id |-> 0, tasks |-> <<>>]
Coll(id, tasks) == [loaded |-> TRUE, id |-> id, tasks |-> tasks]

\* the value an operation returns: None, a text or a Tasks object
RetNone == [kind |-> "none", text |-> <<>>, coll |-> NoColl]
RetText(x) == [kind |-> "text", text |-> x, coll |-> NoColl]
RetColl(c) == [kind |-> "tasks", text |-> <<>>, coll |-> c]
\* the list load_data returns, and the {} it returns for a missing file
RetList(tasks) ==
  [kind |-> "list", text |-> <<>>,
   coll |-> [loaded |-> FALSE, id |-> 0, tasks |-> tasks]]
RetDict == [kind |-> "dict", text |-> <<>>, coll |-> NoColl]

\* get_note that answers an empty text for a task that has no uuid
GetNoteOnBlankForUnsaved(st, u, show) ==
  LET f == GetDatabaseFolder(show)
  IN IF u = NoUuid THEN [err |-> NoErr, ret |-> RetText(<<>>), io |-> <<>>]
     ELSE IF f.err # NoErr THEN [err |-> f.err, ret |-> RetNone, io |-> f.io]
     ELSE IF st.files[u].exists
     THEN [err |-> NoErr, ret |-> RetText(Utf8Decode(st.files[u].bytes)),
           io |-> f.io \o <<ReadNote(u)>>]
     ELSE [err |-> NoErr, ret |-> RetText(<<>>), io |-> f.io]

\* Task.get_note of the task whose uuid is u (NoUuid: it has none)
GetNoteOn(st, u, show) ==
  LET f == GetDatabaseFolder(show)
  IN IF u = NoUuid THEN [err |-> NoErr, ret |-> RetNone, io |-> <<>>]
     ELSE IF f.err # NoErr THEN [err |-> f.err, ret |-> RetNone, io |-> f.io]
     ELSE IF st.files[u].exists
     THEN IF Utf8Valid(st.files[u].bytes)
          THEN [err |-> NoErr, ret |-> RetText(Utf8Decode(st.files[u].bytes)),
                io |-> f.io \o <<ReadNote(u)>>]
          ELSE [err |-> DecodeError, ret |-> RetNone, io |-> f.io \o <<ReadNote(u)>>]
     ELSE [err |-> NoErr, ret |-> RetText(<<>>), io |-> f.io]

\* a comparison that never finds the note the same
NoteEqualsNever(note, r) == FALSE

\* note == self.get_note(): a unicode note is compared as it is, a str note
\* through the default encoding, which is UTF-8 once gtk is imported
NoteEquals(note, r) ==
  /\ r.kind = "text"
  /\ (IF note.type = "unicode" THEN note.s ELSE Utf8Decode(note.s)) = r.text

\* set_note that leaves the note file alone when the note is blank
SetNoteKeeping(st, u, note, show1, show2) ==
  LET g == GetNoteOn(st, u, show1)
      f == GetDatabaseFolder(show2)
      bytes == IF note.type = "unicode" THEN Utf8Encode(note.s) ELSE note.s
      mk == IF st.folder THEN <<>> ELSE <<MkdirEv>>
  IN IF u = NoUuid THEN [err |-> PreconditionError, st |-> st, io |-> <<>>]
     ELSE IF note.type \notin {"str", "unicode"}
     THEN [err |-> NoteTypeError, st |-> st, io |-> <<>>]
     ELSE IF g.err # NoErr THEN [err |-> g.err, st |-> st, io |-> g.io]
     ELSE IF NoteEquals(note, g.ret) THEN [err |-> NoErr, st |-> st, io |-> g.io]
     ELSE IF f.err # NoErr THEN [err |-> f.err, st |-> st, io |-> g.io \o f.io]
     ELSE IF Strip(bytes) # <<>>
     THEN [err |-> NoErr,
           st |-> [folder |-> TRUE,
                   files |-> [st.files EXCEPT ![u] = NoteFile(bytes)]],
           io |-> g.io \o f.io \o mk \o <<WriteNote(u, bytes)>>]
     ELSE [err |-> NoErr, st |-> [st EXCEPT !.folder = TRUE],
           io |-> g.io \o f.io \o mk]

\* set_note that makes the notes folder before it looks at the task and the
\* note
SetNoteFolderFirst(st, u, note, show1, show2) ==
  LET g == GetNoteOn(st, u, show1)
      f == GetDatabaseFolder(show2)
      bytes == IF note.type = "unicode" THEN Utf8Encode(note.s) ELSE note.s
      mk == IF st.folder THEN <<>> ELSE <<MkdirEv>>
      made == [st EXCEPT !.folder = TRUE]
  IN IF u = NoUuid THEN [err |-> PreconditionError, st |-> made, io |-> mk]
     ELSE IF note.type \notin {"str", "unicode"}
     THEN [err |-> NoteTypeError, st |-> made, io |-> mk]
     ELSE IF g.err # NoErr THEN [err |-> g.err, st |-> st, io |-> g.io]
     ELSE IF NoteEquals(note, g.ret) THEN [err |-> NoErr, st |-> st, io |-> g.io]
     ELSE IF f.err # NoErr THEN [err |-> f.err, st |-> st, io |-> g.io \o f.io]
     ELSE IF Strip(bytes) # <<>>
     THEN [err |-> NoErr,
           st |-> [folder |-> TRUE,
                   files |-> [st.files EXCEPT ![u] = NoteFile(bytes)]],
           io |-> g.io \o f.io \o mk \o <<WriteNote(u, bytes)>>]
     ELSE IF st.files[u].exists
     THEN [err |-> NoErr,
           st |-> [folder |-> TRUE, files |-> [st.files EXCEPT ![u] = NoNote]],
           io |-> g.io \o f.io \o mk \o <<Unlink(u)>>]
     ELSE [err |-> NoErr, st |-> made, io |-> g.io \o f.io \o mk]

\* Task.set_note(note) of the task whose uuid is u
SetNoteOn(st, u, note, show1, show2) ==
  LET g == GetNoteOn(st, u, show1)
      f == GetDatabaseFolder(show2)
      bytes == IF note.type = "unicode" THEN Utf8Encode(note.s) ELSE note.s
      mk == IF st.folder THEN <<>> ELSE <<MkdirEv>>
  IN IF u = NoUuid THEN [err |-> PreconditionError, st |-> st, io |-> <<>>]
     ELSE IF note.type \notin {"str", "unicode"}
     THEN [err |-> NoteTypeError, st |-> st, io |-> <<>>]
     ELSE IF g.err # NoErr THEN [err |-> g.err, st |-> st, io |-> g.io]
     ELSE IF NoteEquals(note, g.ret) THEN [err |-> NoErr, st |-> st, io |-> g.io]
     ELSE IF f.err # NoErr THEN [err |-> f.err, st |-> st, io |-> g.io \o f.io]
     ELSE IF Strip(bytes) # <<>>
     THEN [err |-> NoErr,
           st |-> [folder |-> TRUE,
                   files |-> [st.files EXCEPT ![u] = NoteFile(bytes)]],
           io |-> g.io \o f.io \o mk \o <<WriteNote(u, bytes)>>]
     ELSE IF st.files[u].exists
     THEN [err |-> NoErr,
           st |-> [folder |-> TRUE, files |-> [st.files EXCEPT ![u] = NoNote]],
           io |-> g.io \o f.io \o mk \o <<Unlink(u)>>]
     ELSE [err |-> NoErr, st |-> [st EXCEPT !.folder = TRUE],
           io |-> g.io \o f.io \o mk]

\* --------------------------------------------------------- Task collection
\* load_data that skips a malformed line instead of giving the file up
LoadDataSkipping(file, name, resp) ==
  IF ~file.exists THEN [err |-> NoErr, tasks |-> <<>>, io |-> <<>>]
  ELSE LET lines == SelectSeq(SplitLines(file.lines), WellFormed)
       IN IF ~resp.ok
          THEN [err |-> RunnerError, tasks |-> <<>>,
                io |-> <<Read(name), ExportCmd>>]
          ELSE [err |-> NoErr,
                tasks |-> MergeExported([i \in 1..Len(lines) |-> ParseLine(lines[i])],
                                        resp.arr),
                io |-> <<Read(name), ExportCmd>>]

\* Tasks.load_data on the file `name`; resp is what the command runner
\* answers to the export request, should one be issued
LoadData(file, name, resp) ==
  IF ~file.exists THEN [err |-> NoErr, tasks |-> <<>>, io |-> <<>>]
  ELSE LET lines == SplitLines(file.lines)
       IN IF \E i \in 1..Len(lines) : ~WellFormed(lines[i])
          THEN [err |-> FormatError(name), tasks |-> <<>>, io |-> <<Read(name)>>]
          ELSE IF ~resp.ok
          THEN [err |-> RunnerError, tasks |-> <<>>,
                io |-> <<Read(name), ExportCmd>>]
          ELSE [err |-> NoErr,
                tasks |-> MergeExported([i \in 1..Len(lines) |-> ParseLine(lines[i])],
                                        resp.arr),
                io |-> <<Read(name), ExportCmd>>]

\* a constructor that parses both files and merges the whole sequence once
TasksInitMergingOnce(pfile, cfile, show, resp1, resp2) ==
  LET f == GetDatabaseFolder(show)
      p == LoadData(pfile, "pending.data", [ok |-> TRUE, arr |-> <<>>])
      c == LoadData(cfile, "completed.data", [ok |-> TRUE, arr |-> <<>>])
      reads == SelectSeq(p.io \o c.io, LAMBDA e : e.t = "read")
  IN IF f.err # NoErr THEN [err |-> f.err, tasks |-> <<>>, io |-> f.io]
     ELSE IF p.err # NoErr THEN [err |-> p.err, tasks |-> <<>>, io |-> f.io \o reads]
     ELSE IF c.err # NoErr THEN [err |-> c.err, tasks |-> <<>>, io |-> f.io \o reads]
     ELSE IF ~resp1.ok
     THEN [err |-> RunnerError, tasks |-> <<>>, io |-> f.io \o reads \o <<ExportCmd>>]
     ELSE [err |-> NoErr, tasks |-> MergeExported(p.tasks \o c.tasks, resp1.arr),
           io |-> f.io \o reads \o <<ExportCmd>>]

\* Tasks.__init__
TasksInit(pfile, cfile, show, resp1, resp2) ==
  LET f == GetDatabaseFolder(show)
      p == LoadData(pfile, "pending.data", resp1)
      c == LoadData(cfile, "completed.data", resp2)
  IN IF f.err # NoErr THEN [err |-> f.err, tasks |-> <<>>, io |-> f.io]
     ELSE IF p.err # NoErr THEN [err |-> p.err, tasks |-> <<>>, io |-> f.io \o p.io]
     ELSE IF c.err # NoErr
     THEN [err |-> c.err, tasks |-> <<>>, io |-> f.io \o p.io \o c.io]
     ELSE [err |-> NoErr, tasks |-> p.tasks \o c.tasks,
           io |-> f.io \o p.io \o c.io]

\* ---------------------------------------------------------------- inputs
Word(k, v) == <<k, ":">> \o v

L1 == [open |-> TRUE, close |-> TRUE, ws |-> FALSE,
       body |-> <<Word("uuid", <<"u1">>), Word("tags", <<"a", ",", "b">>)>>]
L2 == [open |-> TRUE, close |-> TRUE, ws |-> FALSE,
       body |-> <<Word("uuid", <<"u2">>), <<"junk">>,
                  Word("project", <<"x", "\\", "/", "y">>)>>]
LNoClose == [L1 EXCEPT !.close = FALSE]
LNoOpen == [L2 EXCEPT !.open = FALSE]
LTrailWs == [L2 EXCEPT !.ws = TRUE]

NoFile == [exists |-> FALSE, lines |-> <<>>]
File(lines) == [exists |-> TRUE, lines |-> lines]

\* what the command runner may answer to an export request
Entry(u, has, val) ==
  [uuid |-> <<u>>, hasUrgency |-> has, urgency |-> [type |-> "int", val |-> val]]
ExportResponses ==
  { [ok |-> FALSE, arr |-> <<>>],
    [ok |-> TRUE, arr |-> <<Entry("u1", TRUE, 4), Entry("u2", FALSE, 0),
                            Entry("u1", TRUE, 7)>>] }
ShowResponses == {"fail", "nolocation", "ok"}

\* the database files the facade is run against
PendingFiles == {NoFile, File(<<L1, L2>>), File(<<L1, LNoClose>>)}
CompletedFiles == {NoFile, File(<<L2>>)}

\* --------------------------------------------------------- Database facade

\* load_tasks that takes the completed file first
LoadTasksCompletedFirst(show, resp1, resp2) ==
  LET r == TasksInit(pending, completed, show, resp1, resp2)
      c == LoadData(completed, "completed.data", resp2)
      p == LoadData(pending, "pending.data", resp1)
  IN IF r.err # NoErr THEN r ELSE [r EXCEPT !.tasks = c.tasks \o p.tasks]

\* Database.load_tasks
LoadTasks(show, resp1, resp2) == TasksInit(pending, completed, show, resp1, resp2)

\* get_tasks that loads whatever the cache holds
GetTasksReloading(c, show, resp1, resp2) ==
  LET r == LoadTasks(show, resp1, resp2)
      new == Coll(nloads + 1, r.tasks)
  IN IF r.err # NoErr
     THEN [cache |-> c, ret |-> RetNone, err |-> r.err, io |-> r.io, loads |-> 1]
     ELSE [cache |-> new, ret |-> RetColl(new), err |-> NoErr, io |-> r.io,
           loads |-> 1]

\* get_tasks that caches whatever a load that failed had got
GetTasksCachingPartial(c, show, resp1, resp2) ==
  IF c.loaded
  THEN [cache |-> c, ret |-> RetColl(c), err |-> NoErr, io |-> <<>>, loads |-> 0]
  ELSE LET r == LoadTasks(show, resp1, resp2)
           new == Coll(nloads + 1, r.tasks)
       IN [cache |-> new, ret |-> IF r.err # NoErr THEN RetNone ELSE RetColl(new),
           err |-> r.err, io |-> r.io, loads |-> 1]

\* Database.get_tasks run with the cache holding c
GetTasksOn(c, show, resp1, resp2) ==
  IF c.loaded
  THEN [cache |-> c, ret |-> RetColl(c), err |-> NoErr, io |-> <<>>, loads |-> 0]
  ELSE LET r == LoadTasks(show, resp1, resp2)
           new == Coll(nloads + 1, r.tasks)
       IN IF r.err # NoErr
          THEN [cache |-> c, ret |-> RetNone, err |-> r.err, io |-> r.io, loads |-> 1]
          ELSE [cache |-> new, ret |-> RetColl(new), err |-> NoErr, io |-> r.io,
                loads |-> 1]

\* run_command over the requests cmds, the failAt-th of which fails
Issue(cmds, failAt) ==
  IF failAt \in 1..Len(cmds)
  THEN [err |-> RunnerError, io |-> SubSeq(cmds, 1, failAt)]
  ELSE [err |-> NoErr, io |-> cmds]

Task == <<"task">>

\* the requests of start_task, stop_task, finish_task and restart_task
StartCmds(id) == <<Cmd(<<Task, id, <<"start">> >>)>>
StopCmds(id) == <<Cmd(<<Task, id, <<"stop">> >>)>>
\* finish_task that marks the task done before it stops it
FinishCmdsDoneFirst(id) ==
  <<Cmd(<<Task, id, <<"done">> >>), Cmd(<<Task, id, <<"stop">> >>)>>

FinishCmds(id) == <<Cmd(<<Task, id, <<"stop">> >>), Cmd(<<Task, id, <<"done">> >>)>>
RestartCmds(id) ==
  <<Cmd(<<Task, id, <<"mod">>, <<"status", ":", "pending">> >>),
    Cmd(<<Task, id, <<"start">> >>)>>

RECURSIVE NonBlank(_)
\* the tags kept by `if tag.strip()`
NonBlank(tags) ==
  IF tags = <<>> THEN <<>>
  ELSE (IF Strip(Head(tags)) # <<>> THEN <<Head(tags)>> ELSE <<>>)
       \o NonBlank(Tail(tags))

\* "{0}:{1}".format(k, v)
Format(k, v) == <<k, ":">> \o v

\* the note value a `note` property carries
NoteOf(p) == [type |-> IF p.textual THEN "unicode" ELSE "other", s |-> p.v]

\* the arguments update_task appends for the property p
UpdateArgs(p) ==
  IF p.k = "tags" THEN NonBlank(p.tags)
  ELSE IF p.k = "description" THEN <<p.v>>
  ELSE IF p.k = "note" THEN <<>>
  ELSE <<Format(p.k, p.v)>>

RECURSIVE UpdateLoop(_, _, _, _, _, _, _, _, _, _)
\* the loop of update_task from the i-th property on: command is the list
\* built so far, st the note store, last the note last set, nreq the requests
\* issued so far, the failAt-th of which fails
UpdateLoop(id, props, i, command, st, last, io0, nreq, failAt, shows) ==
  IF i > Len(props) THEN [err |-> NoErr, st |-> st, last |-> last, io |-> io0]
  ELSE LET p == props[i]
           cmd == command \o UpdateArgs(p)
           sn == IF p.k = "note"
                 THEN SetNoteOn(st, id, NoteOf(p), shows[1], shows[2])
                 ELSE [err |-> NoErr, st |-> st, io |-> <<>>]
           last1 == IF p.k = "note" /\ sn.err = NoErr
                    THEN [set |-> TRUE, note |-> NoteOf(p)] ELSE last
           io1 == io0 \o sn.io \o <<Cmd(cmd)>>
       IN IF p.k = "uuid"
          THEN UpdateLoop(id, props, i + 1, command, st, last, io0, nreq, failAt, shows)
          ELSE IF sn.err # NoErr
          THEN [err |-> sn.err, st |-> st, last |-> last, io |-> io0 \o sn.io]
          ELSE IF failAt = nreq + 1
          THEN [err |-> RunnerError, st |-> sn.st, last |-> last1, io |-> io1]
          ELSE UpdateLoop(id, props, i + 1, cmd, sn.st, last1, io1, nreq + 1,
                          failAt, shows)

\* Database.update_task(task_id, properties)
UpdateTaskOn(id, props, st, last, failAt, shows) ==
  UpdateLoop(id, props, 1, <<Task, id, <<"mod">> >>, st, last, <<>>, 0, failAt, shows)

\* the arguments add_task appends for the property p
AddArgs(p) ==
  IF p.k = "tags" THEN NonBlank(p.tags)
  ELSE IF p.k = "description" THEN <<p.v>>
  ELSE <<Format(p.k, p.v)>>

Digits == {"42", "7"}

RECURSIVE FindCreated(_)
\* re.findall("Created task (\d+)", output)
FindCreated(out) ==
  IF Len(out) < 2 THEN <<>>
  ELSE IF out[1] = "Created task " /\ out[2] \in Digits
       THEN <<out[2]>> \o FindCreated(SubSeq(out, 3, Len(out)))
       ELSE FindCreated(Tail(out))

RECURSIVE AddLoop(_, _, _, _, _, _)
\* the loop of add_task from the i-th property on: crs[i] is the runner's
\* answer to the request issued for the i-th property, ur its answer to the
\* uuid request
AddLoop(props, i, command, io0, crs, ur) ==
  IF i > Len(props) THEN [err |-> NoErr, ret |-> RetNone, io |-> io0]
  ELSE LET p == props[i]
           cmd == command \o AddArgs(p)
           io1 == io0 \o <<Cmd(cmd)>>
           found == FindCreated(crs[i].out)
           io2 == io1 \o <<Cmd(<<Task, <<found[1]>>, <<"uuid">> >>)>>
       IN IF p.k = "uuid" THEN AddLoop(props, i + 1, command, io0, crs, ur)
          ELSE IF ~crs[i].ok THEN [err |-> RunnerError, ret |-> RetNone, io |-> io1]
          ELSE IF found = <<>> THEN AddLoop(props, i + 1, cmd, io1, crs, ur)
          ELSE IF ~ur.ok THEN [err |-> RunnerError, ret |-> RetNone, io |-> io2]
          ELSE [err |-> NoErr, ret |-> RetText(Strip(ur.out)), io |-> io2]

\* add_task that hands back the runner's answer as it came
AddTaskUnstripped(props, crs, ur) ==
  LET r == AddLoop(props, 1, <<Task, <<"add">> >>, <<>>, crs, ur)
  IN IF r.ret.kind = "text" THEN [r EXCEPT !.ret = RetText(ur.out)] ELSE r

\* Database.add_task(properties)
AddTaskOn(props, crs, ur) == AddLoop(props, 1, <<Task, <<"add">> >>, <<>>, crs, ur)

\* ------------------------------------------------- inputs of the mutations
TaskIds == {<<"u1">>}

\* the task ids start, stop, finish and restart are called with: a uuid or a
\* task number
RequestIds == TaskIds \cup {<<"12">>}

Prop(k, v) == [k |-> k, v |-> v, tags |-> <<>>, textual |-> TRUE]
PropItems ==
  { Prop("uuid", <<"u7">>),
    [k |-> "tags", v |-> <<>>, tags |-> << <<"home">>, <<" ">> >>, textual |-> TRUE],
    Prop("description", <<"buy milk">>),
    Prop("project", <<"x">>),
    Prop("note", <<"h">>),
    Prop("note", <<" ">>),
    [k |-> "note", v |-> <<"5">>, tags |-> <<>>, textual |-> FALSE] }

\* a property mapping in the order items() yields it: no key twice
PropSeqs ==
  UNION { { ps \in [1..n -> PropItems] :
              \A i, j \in 1..n : i # j => ps[i].k # ps[j].k } : n \in 0..MaxProps }

\* the property mappings the facade is run with next to a changing cache
FacadeProps ==
  { <<>>,
    <<Prop("uuid", <<"u7">>)>>,
    <<Prop("description", <<"buy milk">>), Prop("project", <<"x">>)>>,
    <<Prop("note", <<"h">>), Prop("description", <<"buy milk">>)>> }

\* the runner's answers to the two `task _show` requests of one set_note
NoteShows ==
  { <<"ok", "ok">>, <<"fail", "ok">>, <<"nolocation", "ok">>, <<"ok", "fail">>,
    <<"ok", "nolocation">> }

RunnerFail == [ok |-> FALSE, out |-> <<>>]
Answer(out) == [ok |-> TRUE, out |-> out]
AddResponses ==
  { RunnerFail,
    Answer(<<"Created task ", "42", ".", "\n">>),
    Answer(<<"Created task ", "7", ".", "Created task ", "42">>),
    Answer(<<"Created task ", "soon">>) }
UuidResponses == { RunnerFail, Answer(<<"u9", "\n">>), Answer(<<" ", "u8">>) }

NoLast == [set |-> FALSE, note |-> [type |-> "unicode", s |-> <<>>]]

NoInp == [none |-> TRUE]

\* the state after Database() over database files drawn from PF and CF
InitOver(PF, CF) ==
  /\ inp = NoInp
  /\ notes = [folder |-> FALSE, files |-> [u \in TaskIds |-> NoNote]]
  /\ lastNote = [u \in TaskIds |-> NoLast]
  /\ pending \in PF
  /\ completed \in CF
  /\ _tasks = NoColl
  /\ nloads = 0
  /\ discarded = {}
  /\ op = "idle"
  /\ ret = RetNone
  /\ err = NoErr
  /\ io = <<>>
  /\ clock = 1
  /\ mtime = 0
  /\ ts = 0
  /\ ver = 0
  /\ seen = 0

Init == InitOver(PendingFiles, CompletedFiles)

\* Database.get_tasks, the command runner answering `task _show` from S and
\* an export request from R
GetTasksOver(S, R) ==
  /\ op = "idle"
  /\ \E show \in S, resp1, resp2 \in R :
       LET r == GetTasksOn(_tasks, show, resp1, resp2)
       IN /\ nloads + r.loads <= MaxLoads
          /\ _tasks' = r.cache
          /\ nloads' = nloads + r.loads
          /\ op' = "get_tasks"
          /\ inp' = [show |-> show, resp1 |-> resp1, resp2 |-> resp2]
          /\ ret' = r.ret
          /\ err' = r.err
          /\ io' = r.io
          /\ UNCHANGED <<pending, completed, discarded, notes, lastNote>>
          /\ seen' = IF r.loads = 1 /\ r.err = NoErr THEN ver ELSE seen
          /\ UNCHANGED <<clock, mtime, ts, ver>>

GetTasks == GetTasksOver(ShowResponses, ExportResponses)

\* os.stat(self.filename) on a file that is not there
StatError == [kind |-> "OSError", what |-> "pending.data"]

RetBool(b) == [kind |-> "bool", text |-> <<b>>, coll |-> NoColl]

\* modified_since that takes a file of the very time ts for modified
ModifiedSinceOnOrAt(file, m, t) ==
  IF ~file.exists THEN [err |-> StatError, ret |-> RetNone]
  ELSE [err |-> NoErr, ret |-> RetBool(m >= t)]

\* Database.modified_since(t), m being st_mtime of the pending file
ModifiedSinceOn(file, m, t) ==
  IF ~file.exists THEN [err |-> StatError, ret |-> RetNone]
  ELSE [err |-> NoErr, ret |-> RetBool(m > t)]

\* a call of Database.modified_since
ModifiedSince ==
  /\ op = "idle"
  /\ \E t \in 0..MaxClock :
       LET r == ModifiedSinceOn(pending, mtime, t)
       IN /\ op' = "modified_since"
          /\ inp' = [ts |-> t]
          /\ ret' = r.ret
          /\ err' = r.err
          /\ io' = <<>>
          /\ UNCHANGED <<pending, completed, _tasks, nloads, discarded, notes, lastNote>>
          /\ UNCHANGED pollvars

\* refresh that keeps the cache
RefreshKeeping ==
  /\ op = "idle"
  /\ \E show \in ShowResponses, resp1, resp2 \in ExportResponses :
       LET r == GetTasksOn(_tasks, show, resp1, resp2)
       IN /\ nloads + r.loads <= MaxLoads
          /\ _tasks' = r.cache
          /\ nloads' = nloads + r.loads
          /\ op' = "refresh"
          /\ inp' = [show |-> show, resp1 |-> resp1, resp2 |-> resp2]
          /\ ret' = r.ret
          /\ err' = r.err
          /\ io' = r.io
          /\ UNCHANGED <<pending, completed, discarded, notes, lastNote>>
          /\ seen' = IF r.loads = 1 /\ r.err = NoErr THEN ver ELSE seen
          /\ UNCHANGED <<clock, mtime, ts, ver>>

\* Database.refresh
Refresh ==
  /\ op = "idle"
  /\ \E show \in ShowResponses, resp1, resp2 \in ExportResponses :
       LET r == GetTasksOn(NoColl, show, resp1, resp2)
       IN /\ nloads + r.loads <= MaxLoads
          /\ _tasks' = r.cache
          /\ nloads' = nloads + r.loads
          /\ discarded' = discarded \cup (IF _tasks.loaded THEN {_tasks.id} ELSE {})
          /\ op' = "refresh"
          /\ inp' = [show |-> show, resp1 |-> resp1, resp2 |-> resp2]
          /\ ret' = r.ret
          /\ err' = r.err
          /\ io' = r.io
          /\ UNCHANGED <<pending, completed, notes, lastNote>>
          /\ seen' = IF r.loads = 1 /\ r.err = NoErr THEN ver ELSE seen
          /\ UNCHANGED <<clock, mtime, ts, ver>>

\* the external tool, or anything else, rewrites a database file
ExternalWrite ==
  /\ op = "idle"
  /\ \/ pending' \in PendingFiles /\ mtime' = clock /\ UNCHANGED completed
     \/ completed' \in CompletedFiles /\ UNCHANGED <<pending, mtime>>
  /\ UNCHANGED <<_tasks, nloads, discarded, notes, lastNote, op, inp, ret, err, io>>
  /\ UNCHANGED <<clock, ts, ver, seen>>

\* the caller has taken the result of the operation; the next call can start
Return ==
  /\ op # "idle"
  /\ op' = "idle"
  /\ inp' = NoInp
  /\ ret' = RetNone
  /\ err' = NoErr
  /\ io' = <<>>
  /\ UNCHANGED <<pending, completed, _tasks, nloads, discarded, notes, lastNote>>
  /\ UNCHANGED pollvars

\* a mutation that drops the cache
MutatedInvalidating(name, r) ==
  /\ op' = name
  /\ ret' = r.ret
  /\ err' = r.err
  /\ io' = r.io
  /\ _tasks' = NoColl
  /\ discarded' = discarded \cup (IF _tasks.loaded THEN {_tasks.id} ELSE {})
  /\ UNCHANGED <<pending, completed, nloads>>
  /\ UNCHANGED pollvars

\* what a mutation leaves behind: r is [err, ret, io].  What the external tool
\* does to the database files on a request is an ExternalWrite step.
Mutated(name, r) ==
  /\ op' = name
  /\ ret' = r.ret
  /\ err' = r.err
  /\ io' = r.io
  /\ UNCHANGED <<pending, completed, _tasks, nloads, discarded>>
  /\ UNCHANGED pollvars

\* start, stop, finish and restart that forget the cached collection
SimpleDropping(name, id, cmds, failAt) ==
  LET r == Issue(cmds, failAt)
  IN /\ op' = name
     /\ ret' = RetNone
     /\ err' = r.err
     /\ io' = r.io
     /\ inp' = [id |-> id, failAt |-> failAt]
     /\ _tasks' = NoColl
     /\ UNCHANGED <<pending, completed, nloads, discarded, notes, lastNote>>
     /\ UNCHANGED pollvars

\* start_task, stop_task, finish_task and restart_task: the requests cmds
Simple(name, id, cmds, failAt) ==
  LET r == Issue(cmds, failAt)
  IN /\ Mutated(name, [err |-> r.err, ret |-> RetNone, io |-> r.io])
     /\ inp' = [id |-> id, failAt |-> failAt]
     /\ UNCHANGED <<notes, lastNote>>

\* Database.start_task
StartTask ==
  /\ op = "idle"
  /\ \E id \in RequestIds, failAt \in 0..1 :
       Simple("start_task", id, StartCmds(id), failAt)

\* Database.stop_task
StopTask ==
  /\ op = "idle"
  /\ \E id \in RequestIds, failAt \in 0..1 :
       Simple("stop_task", id, StopCmds(id), failAt)

\* Database.finish_task
FinishTask ==
  /\ op = "idle"
  /\ \E id \in RequestIds, failAt \in 0..2 :
       Simple("finish_task", id, FinishCmds(id), failAt)

\* Database.restart_task
RestartTask ==
  /\ op = "idle"
  /\ \E id \in RequestIds, failAt \in 0..2 :
       Simple("restart_task", id, RestartCmds(id), failAt)

\* update_task over the property mappings PS
UpdateTaskOver(PS) ==
  /\ op = "idle"
  /\ \E id \in TaskIds, props \in PS, shows \in NoteShows :
     \E failAt \in 0..Len(props) :
       LET r == UpdateTaskOn(id, props, notes, lastNote[id], failAt, shows)
       IN /\ Mutated("update_task", [err |-> r.err, ret |-> RetNone, io |-> r.io])
          /\ inp' = [id |-> id, props |-> props, failAt |-> failAt, shows |-> shows]
          /\ notes' = r.st
          /\ lastNote' = [lastNote EXCEPT ![id] = r.last]

\* add_task over the property mappings PS
AddTaskOver(PS) ==
  /\ op = "idle"
  /\ \E props \in PS, ur \in UuidResponses :
     \E crs \in [1..Len(props) -> AddResponses] :
       LET r == AddTaskOn(props, crs, ur)
       IN /\ Mutated("add_task", r)
          /\ inp' = [props |-> props, crs |-> crs, ur |-> ur]
          /\ UNCHANGED <<notes, lastNote>>

UpdateTask == UpdateTaskOver(FacadeProps)

AddTask == AddTaskOver(FacadeProps)

Next ==
  \/ GetTasks
  \/ Refresh
  \/ StartTask
  \/ StopTask
  \/ FinishTask
  \/ RestartTask
  \/ UpdateTask
  \/ AddTask
  \/ ModifiedSince
  \/ ExternalWrite
  \/ Return

Spec == Init /\ [][Next]_vars

\* ---- the facade under a poller, over MaxWrites rewrites of the pending file
\* and MaxClock readings of the clock; the command runner answers
OkExport == CHOOSE r \in ExportResponses : r.ok

PollFiles == {File(<<L1>>), File(<<L1, L2>>)}

\* the clock moves on to its next reading
Tick ==
  /\ op = "idle"
  /\ clock < MaxClock
  /\ clock' = clock + 1
  /\ UNCHANGED <<pending, completed, _tasks, nloads, discarded, notes, lastNote,
                 op, inp, ret, err, io, mtime, ts, ver, seen>>

\* the external tool rewrites the pending file: it is stamped with the time
PendingChange ==
  /\ op = "idle"
  /\ ver < MaxWrites
  /\ pending' \in PollFiles \ {pending}
  /\ mtime' = clock
  /\ ver' = ver + 1
  /\ UNCHANGED <<completed, _tasks, nloads, discarded, notes, lastNote,
                 op, inp, ret, err, io, clock, ts, seen>>

\* the handler of the poller's timer, modified_since with the time of the
\* last refresh having answered true: refresh(), and the time is noted
PollRefresh ==
  /\ op = "idle"
  /\ ModifiedSinceOn(pending, mtime, ts) = [err |-> NoErr, ret |-> RetBool(TRUE)]
  /\ _tasks' = GetTasksOn(NoColl, "ok", OkExport, OkExport).cache
  /\ nloads' = nloads + 1
  /\ discarded' = discarded \cup (IF _tasks.loaded THEN {_tasks.id} ELSE {})
  /\ seen' = ver
  /\ ts' = clock
  /\ op' = "refresh"
  /\ inp' = [show |-> "ok", resp1 |-> OkExport, resp2 |-> OkExport]
  /\ ret' = GetTasksOn(NoColl, "ok", OkExport, OkExport).ret
  /\ err' = GetTasksOn(NoColl, "ok", OkExport, OkExport).err
  /\ io' = GetTasksOn(NoColl, "ok", OkExport, OkExport).io
  /\ UNCHANGED <<pending, completed, notes, lastNote, clock, mtime, ver>>

\* the handler of the poller's timer, modified_since having answered false
\* or raised: nothing more is done
PollQuiet ==
  /\ op = "idle"
  /\ ModifiedSinceOn(pending, mtime, ts) # [err |-> NoErr, ret |-> RetBool(TRUE)]
  /\ op' = "modified_since"
  /\ inp' = [ts |-> ts]
  /\ ret' = ModifiedSinceOn(pending, mtime, ts).ret
  /\ err' = ModifiedSinceOn(pending, mtime, ts).err
  /\ io' = <<>>
  /\ UNCHANGED <<pending, completed, _tasks, nloads, discarded, notes, lastNote>>
  /\ UNCHANGED pollvars

PollTimer == PollRefresh \/ PollQuiet

\* get_tasks called by whoever shows the tasks
GetTasksAnswered == GetTasksOver({"ok"}, {OkExport})

InitPoll == InitOver(PollFiles, {NoFile})

NextPoll ==
  \/ Tick
  \/ PendingChange
  \/ PollTimer
  \/ GetTasksAnswered
  \/ ModifiedSince
  \/ Return

\* PollRefresh is enabled: a step of it can be taken
PollDue == op = "idle" /\ pending.exists /\ mtime > ts

\* every call returns, and the timer keeps firing: strong fairness of
\* PollRefresh, with PollDue for ENABLED <<PollRefresh>>_vars
SpecPoll ==
  /\ InitPoll /\ [][NextPoll]_vars
  /\ WF_vars(Return)
  /\ (<>[](~PollDue) \/ []<><<PollRefresh>>_vars)

\* the state after Database() with no database file in the data folder
InitMut == InitOver({NoFile}, {NoFile})

\* ---- loading alone, over every pending file of up to MaxLines lines
LineKinds == {L1, L2, LNoClose, LNoOpen, LTrailWs, BlankLine}

LoadFiles ==
  {NoFile} \cup
  { File(ls) : ls \in UNION { [1..n -> LineKinds] : n \in 0..MaxLines } }

LoadCompletedFiles == {NoFile, File(<<L2>>), File(<<L2, L1>>), File(<<LNoOpen>>)}

FileNamed(name) == IF name = "pending.data" THEN pending ELSE completed

\* a call of Tasks.load_data on one of the two database files
LoadDataCall ==
  /\ op = "idle"
  /\ \E name \in {"pending.data", "completed.data"}, resp \in ExportResponses :
       LET r == LoadData(FileNamed(name), name, resp)
       IN /\ op' = "load_data"
          /\ inp' = [name |-> name, resp |-> resp]
          /\ ret' = IF r.err # NoErr THEN RetNone
                    ELSE IF FileNamed(name).exists THEN RetList(r.tasks) ELSE RetDict
          /\ err' = r.err
          /\ io' = r.io
          /\ UNCHANGED <<pending, completed, _tasks, nloads, discarded, notes, lastNote>>
          /\ UNCHANGED pollvars

\* a call of Database.load_tasks: a Tasks object that is not cached
LoadTasksCall ==
  /\ op = "idle"
  /\ \E show \in ShowResponses, resp1, resp2 \in ExportResponses :
       LET r == LoadTasks(show, resp1, resp2)
       IN /\ nloads < MaxLoads
          /\ nloads' = nloads + 1
          /\ op' = "load_tasks"
          /\ inp' = [show |-> show, resp1 |-> resp1, resp2 |-> resp2]
          /\ ret' = IF r.err # NoErr THEN RetNone ELSE RetColl(Coll(nloads + 1, r.tasks))
          /\ err' = r.err
          /\ io' = r.io
          /\ UNCHANGED <<pending, completed, _tasks, discarded, notes, lastNote>>
          /\ UNCHANGED pollvars

InitLoad == InitOver(LoadFiles, LoadCompletedFiles)

NextLoad ==
  \/ LoadDataCall
  \/ LoadTasksCall
  \/ Return

SpecLoad == InitLoad /\ [][NextLoad]_vars

\* ---- the export merger alone, over every export array of up to MaxExport
\* entries and every sequence of up to MaxLines parsed records
MergeLines ==
  { L1, L2,
    [open |-> TRUE, close |-> TRUE, ws |-> FALSE,
     body |-> <<Word("description", <<"no id">>)>>],
    [open |-> TRUE, close |-> TRUE, ws |-> FALSE,
     body |-> <<Word("uuid", <<"u1">>), Word("urgency", <<"1">>)>>] }

MergeRecords ==
  UNION { [1..n -> { ParseLine(l) : l \in MergeLines }] : n \in 0..MaxLines }

ExportEntries ==
  { Entry("u1", TRUE, 4), Entry("u1", TRUE, 7), Entry("u1", FALSE, 0),
    Entry("u2", TRUE, 4), Entry("u3", FALSE, 0),
    [uuid |-> <<"u2">>, hasUrgency |-> TRUE, urgency |-> [type |-> "float", val |-> 2]] }

\* the export holds every task once: no uuid twice in an array
ExportArrays ==
  UNION { { a \in [1..n -> ExportEntries] :
              \A i, j \in 1..n : i # j => a[i].uuid # a[j].uuid } : n \in 0..MaxExport }

MergeResponses ==
  { [ok |-> FALSE, arr |-> <<>>] } \cup { [ok |-> TRUE, arr |-> a] : a \in ExportArrays }

\* Tasks.merge_exported(tasks): the export request, then the loop
MergeExportedOn(tasks, resp) ==
  IF ~resp.ok THEN [err |-> RunnerError, tasks |-> <<>>, io |-> <<ExportCmd>>]
  ELSE [err |-> NoErr, tasks |-> MergeExported(tasks, resp.arr), io |-> <<ExportCmd>>]

\* a call of Tasks.merge_exported
MergeExportedCall ==
  /\ op = "idle"
  /\ \E tasks \in MergeRecords, resp \in MergeResponses :
       LET r == MergeExportedOn(tasks, resp)
       IN /\ op' = "merge_exported"
          /\ inp' = [tasks |-> tasks, resp |-> resp]
          /\ ret' = IF r.err # NoErr THEN RetNone ELSE RetList(r.tasks)
          /\ err' = r.err
          /\ io' = r.io
          /\ UNCHANGED <<pending, completed, _tasks, nloads, discarded, notes, lastNote>>
          /\ UNCHANGED pollvars

NextMerge ==
  \/ MergeExportedCall
  \/ Return

SpecMerge == InitMut /\ [][NextMerge]_vars

\* ---- parsing alone, over every raw tags value of up to MaxTagLen characters
RawTags == UNION { [1..n -> {"a", "b", ","}] : n \in 0..MaxTagLen }

TagLine(raw) ==
  [open |-> TRUE, close |-> TRUE, ws |-> FALSE,
   body |-> <<Word("uuid", <<"u1">>), Word("tags", raw)>>]

InitParse == InitOver({ File(<<TagLine(raw)>>) : raw \in RawTags }, {NoFile})

NextParse ==
  \/ LoadDataCall
  \/ Return

SpecParse == InitParse /\ [][NextParse]_vars

\* ---- the note store alone, over every note of up to MaxNoteLen characters
NoteChars == {"h", " ", NonAscii}

NoteTexts(n) == UNION { [1..m -> NoteChars] : m \in 0..n }

\* unicode objects, str objects (the UTF-8 bytes of a text) and a non-text
NoteValues ==
  { [type |-> "unicode", s |-> x] : x \in NoteTexts(MaxNoteLen) }
  \cup { [type |-> "str", s |-> Utf8Encode(x)] : x \in NoteTexts(1) }
  \cup { [type |-> "other", s |-> <<"5">>] }

\* a call of Task.set_note on a task with the uuid u, or with none
SetNote ==
  /\ op = "idle"
  /\ \E u \in TaskIds \cup {NoUuid}, note \in NoteValues, shows \in NoteShows :
       LET r == SetNoteOn(notes, u, note, shows[1], shows[2])
       IN /\ op' = "set_note"
          /\ inp' = [uuid |-> u, note |-> note, shows |-> shows]
          /\ ret' = RetNone
          /\ err' = r.err
          /\ io' = r.io
          /\ notes' = r.st
          /\ lastNote' = IF u # NoUuid /\ r.err = NoErr
                         THEN [lastNote EXCEPT ![u] = [set |-> TRUE, note |-> note]]
                         ELSE lastNote
          /\ UNCHANGED <<pending, completed, _tasks, nloads, discarded>>
          /\ UNCHANGED pollvars

\* a call of Task.get_note
GetNote ==
  /\ op = "idle"
  /\ \E u \in TaskIds \cup {NoUuid}, show \in ShowResponses :
       LET r == GetNoteOn(notes, u, show)
       IN /\ op' = "get_note"
          /\ inp' = [uuid |-> u, show |-> show]
          /\ ret' = r.ret
          /\ err' = r.err
          /\ io' = r.io
          /\ UNCHANGED <<pending, completed, _tasks, nloads, discarded, notes, lastNote>>
          /\ UNCHANGED pollvars

NextNote ==
  \/ SetNote
  \/ GetNote
  \/ Return

SpecNote == InitMut /\ [][NextNote]_vars

\* ---- the mutations alone, over every property mapping of up to MaxProps keys
UpdateTaskAny == UpdateTaskOver(PropSeqs)

AddTaskAny == AddTaskOver(PropSeqs)


NextMut ==
  \/ UpdateTaskAny
  \/ AddTaskAny
  \/ Return

SpecMut == InitMut /\ [][NextMut]_vars

\* ------------------------------------------------------------------ claims
MutationOps ==
  {"start_task", "stop_task", "finish_task", "restart_task", "update_task",
   "add_task"}

Count(log, ev) == Cardinality({i \in 1..Len(log) : log[i] = ev})

Reads(log) == {i \in 1..Len(log) : log[i].t = "read"}

\* C1: a get_tasks() call on an Empty cache constructs exactly one Task
\* Collection and, when the construction succeeds, caches that new collection
\* and returns it; on a Loaded cache it returns the very collection that is
\* cached, constructs nothing, reads no database file and issues no request.
C1_GetTasksLoadsOnce ==
  [][ (op = "idle" /\ op' = "get_tasks") =>
        IF _tasks.loaded
        THEN /\ ret' = RetColl(_tasks)
             /\ err' = NoErr
             /\ _tasks' = _tasks
             /\ nloads' = nloads
             /\ io' = <<>>
        ELSE /\ nloads' = nloads + 1
             /\ Count(io', ShowCmd) = 1
             /\ err' = NoErr =>
                  /\ _tasks'.loaded
                  /\ _tasks'.id = nloads + 1
                  /\ ret' = RetColl(_tasks')
             /\ err' # NoErr => ~_tasks'.loaded /\ ret' = RetNone ]_vars

\* a second get_tasks() in a row answered from the cache
C1_Witness ==
  /\ op = "get_tasks"
  /\ io = <<>>
  /\ ret = RetColl(_tasks)
  /\ _tasks.loaded
  /\ _tasks.tasks # <<>>

\* C2: refresh() drops whatever is cached and constructs exactly one Task
\* Collection; when the construction succeeds the cache holds that new
\* collection and refresh() returns it; no get_tasks() ever returns a
\* collection that a refresh() has dropped.
C2_RefreshReloads ==
  /\ [][ (op = "idle" /\ op' = "refresh") =>
          /\ nloads' = nloads + 1
          /\ Count(io', ShowCmd) = 1
          /\ Reads(io') # {} \/ ~pending.exists \/ err' # NoErr
          /\ err' = NoErr =>
               /\ _tasks'.loaded
               /\ _tasks'.id = nloads + 1
               /\ _tasks'.id # _tasks.id
               /\ ret' = RetColl(_tasks') ]_vars
  /\ [](op \in {"get_tasks", "refresh"} /\ ret.kind = "tasks"
          => ret.coll.id \notin discarded)

\* a refresh() of a Loaded cache that succeeded
C2_Witness ==
  /\ op = "refresh"
  /\ err = NoErr
  /\ discarded # {}
  /\ ret = RetColl(_tasks)
  /\ _tasks.id \notin discarded

\* C3 as stated: after a mutation the cache is Empty.
C3_MutationInvalidates ==
  [][ (op = "idle" /\ op' \in MutationOps) => ~_tasks'.loaded ]_vars

\* C3 amended: a mutation request does not invalidate the cache: after the
\* mutation returns, the cache holds what it held before (the same
\* collection when it was Loaded), and no collection has been loaded.
C3_MutationKeepsCache ==
  [][ (op = "idle" /\ op' \in MutationOps) =>
        _tasks' = _tasks /\ nloads' = nloads ]_vars

\* a mutation that issued a request while a collection was cached
C3_Witness ==
  /\ op \in MutationOps
  /\ _tasks.loaded
  /\ \E i \in 1..Len(io) : io[i].t = "cmd"

\* the requests of a log that create or modify a task
IsCreate(e) == e.t = "cmd" /\ Len(e.a) >= 2 /\ e.a[2] = <<"add">>
IsModify(e) == e.t = "cmd" /\ Len(e.a) >= 3 /\ e.a[3] = <<"mod">>
IsResolve(e) == e.t = "cmd" /\ Len(e.a) = 3 /\ e.a[3] = <<"uuid">>

\* the position, among the properties, of the one the j-th creation request
\* was issued for (a `uuid` property gets no request)
Forwarded(props) == {i \in 1..Len(props) : props[i].k # "uuid"}
ForwardedAt(props, j) ==
  CHOOSE i \in Forwarded(props) :
    Cardinality({x \in Forwarded(props) : x <= i}) = j

\* an answer of the external tool that reports "Created task N", and its N
CreatedAt(out) ==
  {i \in 1..(Len(out) - 1) : out[i] = "Created task " /\ out[i + 1] \in Digits}
Reports(ans) == ans.ok /\ CreatedAt(ans.out) # {}
Reported(ans) ==
  ans.out[(CHOOSE i \in CreatedAt(ans.out) : \A j \in CreatedAt(ans.out) : i <= j) + 1]

\* C5: when the answer to a creation request of add_task reports
\* "Created task N", the very next request resolves N to a uuid, it is the
\* last request and the only resolution request of the call, and the stripped
\* answer to it is what add_task returns; no resolution request is issued
\* other than right after such an answer.
C5_AddResolvesUuid ==
  op = "add_task" =>
    LET creates == {q \in 1..Len(io) : IsCreate(io[q])}
        resolves == {q \in 1..Len(io) : IsResolve(io[q])}
        answer(q) ==
          inp.crs[ForwardedAt(inp.props, Cardinality({x \in creates : x <= q}))]
    IN /\ \A q \in creates : Reports(answer(q)) =>
            /\ Len(io) = q + 1
            /\ resolves = {q + 1}
            /\ io[q + 1] = Cmd(<<Task, <<Reported(answer(q))>>, <<"uuid">> >>)
            /\ inp.ur.ok =>
                 /\ err = NoErr
                 /\ ret = RetText(Strip(inp.ur.out))
                 /\ \A n \in 1..Len(ret.text) : ret.text[n] \notin Whitespace
            /\ ~inp.ur.ok => err = RunnerError /\ ret = RetNone
       /\ \A q \in resolves :
            q > 1 /\ (q - 1) \in creates /\ Reports(answer(q - 1))
       /\ resolves = {} => ret = RetNone

\* an add_task whose second creation request was answered "Created task N"
\* and that returned the resolved uuid
C5_Witness ==
  /\ op = "add_task"
  /\ Len(io) = 3
  /\ IsResolve(io[3])
  /\ ret.kind = "text"
  /\ ret.text # inp.ur.out

RECURSIVE Translated(_)
\* the arguments a property mapping translates to: tags and description bare,
\* nothing for uuid and note, key:value for every other key
Translated(props) ==
  IF props = <<>> THEN <<>>
  ELSE LET p == Head(props)
       IN (IF p.k = "tags"
           THEN SelectSeq(p.tags, LAMBDA t : \E n \in 1..Len(t) : t[n] \notin Whitespace)
           ELSE IF p.k = "description" THEN <<p.v>>
           ELSE IF p.k \in {"uuid", "note"} THEN <<>>
           ELSE << <<p.k, ":">> \o p.v >>)
          \o Translated(Tail(props))

\* C6 as stated, for the calls that return and whose mapping has no `note`
\* key and translates to at least one argument: the call issues exactly one
\* modification or creation request, and it carries the translated arguments
\* of every property.
C6_OneRequestPerCall ==
  ( /\ op \in {"update_task", "add_task"}
    /\ err = NoErr
    /\ \A i \in 1..Len(inp.props) : inp.props[i].k # "note"
    /\ Translated(inp.props) # <<>> ) =>
    LET reqs == SelectSeq(io, LAMBDA e : IsCreate(e) \/ IsModify(e))
        base == IF op = "add_task" THEN <<Task, <<"add">> >>
                ELSE <<Task, inp.id, <<"mod">> >>
    IN /\ Len(reqs) = 1
       /\ reqs[1].a = base \o Translated(inp.props)

\* C10 as stated: no request of update_task or add_task carries an argument
\* made from the value of a `uuid` or `note` property, and a `note` property
\* of an update_task that returned has been set as the note of the task.
C10_UuidAndNoteNotForwarded ==
  op \in {"update_task", "add_task"} =>
    \A i \in 1..Len(inp.props) : inp.props[i].k \in {"uuid", "note"} =>
      /\ \A q \in 1..Len(io) : io[q].t = "cmd" =>
           \A n \in 1..Len(io[q].a) :
             io[q].a[n] \notin {inp.props[i].v, <<inp.props[i].k, ":">> \o inp.props[i].v}
      /\ (op = "update_task" /\ err = NoErr /\ inp.props[i].k = "note") =>
           lastNote[inp.id] = [set |-> TRUE, note |-> NoteOf(inp.props[i])]

\* the export requests of a log, and the reads that come after the first one
Exports(log) == {q \in 1..Len(log) : log[q] = ExportCmd}

\* C7 as stated: a collection load that succeeds reads the database files
\* first and then issues exactly one export request.
C7_OneExportPerLoad ==
  (op = "load_tasks" /\ err = NoErr) =>
    /\ Cardinality(Exports(io)) = 1
    /\ \A q \in Reads(io), x \in Exports(io) : q < x

\* C7 amended: a collection load that succeeds handles the two files one
\* after the other, pending first: each file that exists is read and its
\* records are passed through the Export Merger on their own, so the load
\* issues one export request per existing file (none, one or two), each
\* right after the read of its file.
C7_ExportPerExistingFile ==
  (op = "load_tasks" /\ err = NoErr) =>
    io = <<ShowCmd>>
         \o (IF pending.exists THEN <<Read("pending.data"), ExportCmd>> ELSE <<>>)
         \o (IF completed.exists THEN <<Read("completed.data"), ExportCmd>> ELSE <<>>)

\* a load of two existing files: two export requests
C7_Witness ==
  /\ op = "load_tasks"
  /\ err = NoErr
  /\ pending.exists /\ completed.exists
  /\ Cardinality(Exports(io)) = 2
  /\ Len(ret.coll.tasks) >= 2

\* a line as it stands in the file is bounded by "[" and "]"
Bounded(l) == l.open /\ l.close /\ ~l.ws

\* the last line of a file that is not blank, 0 when there is none
LastInk(lines) ==
  IF \A i \in 1..Len(lines) : IsBlank(lines[i]) THEN 0
  ELSE CHOOSE i \in 1..Len(lines) :
         ~IsBlank(lines[i]) /\ \A j \in (i + 1)..Len(lines) : IsBlank(lines[j])

\* some line is not bounded, the blanks that end the file left aside
BadLineIn(file) ==
  \E i \in 1..LastInk(file.lines) :
    LET l == file.lines[i]
    IN ~l.open \/ ~l.close \/ (l.ws /\ i < LastInk(file.lines))

\* C8 as stated: load_data on an existing file with at least one line that
\* is not bounded by "[" and "]" fails with a FormatError naming the file.
C8_UnboundedLineFails ==
  ( /\ op = "load_data"
    /\ FileNamed(inp.name).exists
    /\ inp.resp.ok
    /\ \E i \in 1..Len(FileNamed(inp.name).lines) :
         ~Bounded(FileNamed(inp.name).lines[i]) ) =>
    err = FormatError(inp.name) /\ ret = RetNone

\* C8 amended: load_data on an existing file that has, the whitespace that
\* ends the file left aside (blank last lines, blanks after the last "]"), at
\* least one line not bounded by "[" and "]" fails with a FormatError naming
\* that file and returns no record, wherever the line sits; and with such a
\* pending file, load_data on a completed file without such a line still
\* returns one record per line of the completed file.
C8_MalformedLineFails ==
  /\ ( /\ op = "load_data"
       /\ FileNamed(inp.name).exists
       /\ BadLineIn(FileNamed(inp.name)) ) =>
       /\ err = FormatError(inp.name)
       /\ ret = RetNone
       /\ Exports(io) = {}
  /\ ( /\ op = "load_data"
       /\ inp.name = "completed.data"
       /\ pending.exists /\ BadLineIn(pending)
       /\ completed.exists /\ ~BadLineIn(completed)
       /\ LastInk(completed.lines) > 0
       /\ inp.resp.ok ) =>
       /\ err = NoErr
       /\ ret.kind = "list"
       /\ Len(ret.coll.tasks) = LastInk(completed.lines)

\* load_data given up on a pending file whose second line is the malformed one
C8_Witness ==
  /\ op = "load_data"
  /\ inp.name = "pending.data"
  /\ Len(pending.lines) = 2
  /\ Bounded(pending.lines[1])
  /\ ~pending.lines[2].close
  /\ err = FormatError("pending.data")
  /\ completed.exists /\ ~BadLineIn(completed)

\* the raw tags value of the one line of the pending file
RawOf(file) == SubSeq(file.lines[1].body[2], 3, Len(file.lines[1].body[2]))

\* C9 as stated: the parsed tags are the non-empty comma-separated entries of
\* the raw value, in order; no parsed tags sequence holds an empty string.
C9_TagsDropEmpties ==
  (op = "load_data" /\ inp.name = "pending.data" /\ err = NoErr) =>
    \A i \in 1..Len(ret.coll.tasks) :
      LET t == ret.coll.tasks[i]
      IN "tags" \in DOMAIN t =>
           /\ \A n \in 1..Len(t["tags"]) : t["tags"][n] # <<>>
           /\ t["tags"] = SelectSeq(Split(RawOf(pending), ","), LAMBDA x : x # <<>>)

\* a note that is not blank, its bytes in the note file and its text
InkIn(note) == \E n \in 1..Len(note.s) : note.s[n] \notin Whitespace
BytesOf(note) == IF note.type = "unicode" THEN Utf8Encode(note.s) ELSE note.s
TextOf(note) == IF note.type = "unicode" THEN note.s ELSE Utf8Decode(note.s)

\* C4: for a task with a uuid, with no note file to start with: as long as no
\* set_note has returned there is no note file; after that the note file
\* exists exactly when the note of the last set_note that returned is not
\* blank, and then it holds exactly that note and get_note() returns its text
\* (a set_note that raises leaves the store as it was).
C4_NoteLifecycle ==
  \A u \in TaskIds :
    LET f == notes.files[u]
        last == lastNote[u]
        got == GetNoteOn(notes, u, "ok")
    IN /\ f.exists => notes.folder
       /\ IF ~last.set THEN ~f.exists
          ELSE /\ f.exists <=> InkIn(last.note)
               /\ f.exists =>
                    /\ f.bytes = BytesOf(last.note)
                    /\ got.err = NoErr
                    /\ got.ret = RetText(TextOf(last.note))
               /\ ~f.exists => got.ret = RetText(<<>>)

\* a blank set_note that has just deleted an existing note file
C4_Witness ==
  /\ op = "set_note"
  /\ err = NoErr
  /\ inp.uuid \in TaskIds
  /\ ~InkIn(inp.note) /\ inp.note.s # <<>>
  /\ \E q \in 1..Len(io) : io[q] = Unlink(inp.uuid)
  /\ ~notes.files[inp.uuid].exists

\* C11: finish_task(id) issues `task id stop` and then `task id done`, and
\* restart_task(id) issues `task id mod status:pending` and then
\* `task id start`: both requests, in that order and for the id of the call,
\* when the call returns; the second request is issued only once the first
\* has returned, so a call whose first request fails has issued the first
\* request alone, and a failure of either request is the failure of the call.
C11_FinishRestartSequence ==
  op \in {"finish_task", "restart_task"} =>
    LET first == IF op = "finish_task"
                 THEN Cmd(<< <<"task">>, inp.id, <<"stop">> >>)
                 ELSE Cmd(<< <<"task">>, inp.id, <<"mod">>, <<"status", ":", "pending">> >>)
        second == IF op = "finish_task"
                  THEN Cmd(<< <<"task">>, inp.id, <<"done">> >>)
                  ELSE Cmd(<< <<"task">>, inp.id, <<"start">> >>)
    IN /\ inp.failAt = 0 => err = NoErr /\ io = <<first, second>>
       /\ inp.failAt = 1 => err = RunnerError /\ io = <<first>>
       /\ inp.failAt = 2 => err = RunnerError /\ io = <<first, second>>
       /\ ret = RetNone

\* a finish_task of the task number 12 that returned
C11_Witness ==
  /\ op = "finish_task"
  /\ inp.id = <<"12">>
  /\ err = NoErr
  /\ Len(io) = 2
  /\ io[1].a[3] = <<"stop">>
  /\ io[2].a[3] = <<"done">>

\* the collection a load of the database files as they stand would give
FreshTasks ==
  TasksInit(pending, completed, "ok",
            CHOOSE r \in ExportResponses : r.ok,
            CHOOSE r \in ExportResponses : r.ok)

\* C12: a Loaded cache stays Loaded with the same collection over every step
\* that is not a refresh(): over each mutation (start, stop, finish, restart,
\* update, add), whether it returns or raises, and over a rewrite of the
\* database files; and every get_tasks() on it returns that same collection,
\* stale or not, without loading anything.
C12_CacheKeptUntilRefresh ==
  [][ _tasks.loaded =>
        /\ op' # "refresh" => _tasks' = _tasks /\ nloads' = nloads
        /\ op' \in MutationOps => discarded' = discarded
        /\ (op = "idle" /\ op' = "get_tasks") =>
             ret' = RetColl(_tasks) /\ err' = NoErr ]_vars

\* a get_tasks() that returned the cached collection although the database
\* files hold other records by now
C12_Witness ==
  /\ op = "get_tasks"
  /\ io = <<>>
  /\ _tasks.loaded
  /\ ret = RetColl(_tasks)
  /\ FreshTasks.err = NoErr
  /\ FreshTasks.tasks # _tasks.tasks

\* a record with its urgency left aside
SansUrgency(t) == [k \in DOMAIN t \ {"urgency"} |-> t[k]]

\* the entries of the export array arr that carry the uuid of the record t
Matches(arr, t) ==
  {n \in 1..Len(arr) : "uuid" \in DOMAIN t /\ arr[n].uuid = t["uuid"]}

\* C13: the merged sequence has the same records in the same order, every
\* field other than `urgency` unchanged; a record whose uuid matches an export
\* entry carrying `urgency` gets exactly that value as a float; a record with
\* no export entry, or with an entry without `urgency`, is left without any
\* change.
C13_MergeAdditive ==
  (op = "merge_exported" /\ err = NoErr) =>
    LET in == inp.tasks
        out == ret.coll.tasks
        arr == inp.resp.arr
    IN /\ Len(out) = Len(in)
       /\ \A i \in 1..Len(in) :
            /\ SansUrgency(out[i]) = SansUrgency(in[i])
            /\ \A n \in Matches(arr, in[i]) : arr[n].hasUrgency =>
                 /\ "urgency" \in DOMAIN out[i]
                 /\ out[i]["urgency"] = [type |-> "float", val |-> arr[n].urgency.val]
            /\ (\A n \in Matches(arr, in[i]) : ~arr[n].hasUrgency) => out[i] = in[i]

\* a merge of two records: the first got the urgency its export entry
\* carries, the second has no export entry and is there unchanged
C13_Witness ==
  /\ op = "merge_exported"
  /\ err = NoErr
  /\ Len(inp.tasks) = 2
  /\ Len(ret.coll.tasks) = 2
  /\ "urgency" \notin DOMAIN inp.tasks[1]
  /\ "urgency" \in DOMAIN ret.coll.tasks[1]
  /\ Matches(inp.resp.arr, inp.tasks[2]) = {}
  /\ ret.coll.tasks[2] = inp.tasks[2]

\* the records of a database file, one per line and in the order of the
\* lines, each merged with the answer arr to the export request made for the
\* file; none for a file that does not exist
RecordsOf(file, arr) ==
  IF ~file.exists THEN <<>>
  ELSE LET ls == SplitLines(file.lines)
       IN [i \in 1..Len(ls) |-> MergeOne(ParseLine(ls[i]), arr)]

\* the file can be loaded: it does not exist, or every line of it is bounded
\* and the export request made for it is answered
Loadable(file, resp) == ~file.exists \/ (~BadLineIn(file) /\ LastInk(file.lines) > 0 /\ resp.ok)

\* C14: the Task Collection a load returns is the records of the pending
\* file in file order followed by the records of the completed file in file
\* order; a file that does not exist contributes no record and does not make
\* the load fail: the load succeeds whenever the data location is found and
\* each file that exists can be loaded, so with both files absent the
\* collection is empty and with one file present it is that file's records.
C14_PendingThenCompleted ==
  op = "load_tasks" =>
    LET P == RecordsOf(pending, inp.resp1.arr)
        C == RecordsOf(completed, inp.resp2.arr)
    IN /\ err = NoErr => ret.kind = "tasks" /\ ret.coll.tasks = P \o C
       /\ (inp.show = "ok" /\ Loadable(pending, inp.resp1)
             /\ Loadable(completed, inp.resp2)) => err = NoErr
       /\ (err = NoErr /\ ~pending.exists /\ ~completed.exists) =>
            ret.coll.tasks = <<>>
       /\ (err = NoErr /\ ~pending.exists) => ret.coll.tasks = C
       /\ (err = NoErr /\ ~completed.exists) => ret.coll.tasks = P

\* a load of a two-line pending file and a two-line completed file: four
\* records, the pending ones first
C14_Witness ==
  /\ op = "load_tasks"
  /\ err = NoErr
  /\ pending.exists /\ completed.exists
  /\ Len(ret.coll.tasks) = 4
  /\ ret.coll.tasks[1]["uuid"] = <<pending.lines[1].body[1][3]>>
  /\ ret.coll.tasks[3]["uuid"] = <<completed.lines[1].body[1][3]>>
  /\ ret.coll.tasks[1]["uuid"] # ret.coll.tasks[3]["uuid"]

\* the text get_note() reads back from the store st for the uuid u
ReadBack(st, u) ==
  IF st.files[u].exists THEN Utf8Decode(st.files[u].bytes) ELSE <<>>

\* the events of a log that change the note store
StoreEvents(log) == {q \in 1..Len(log) : log[q].t \in {"mkdir", "write", "unlink"}}

\* C15: a set_note(text) whose text is the note get_note() reads back at
\* that moment changes nothing: no folder created, no note file
\* written, overwritten or deleted; and a set_note with the text of the
\* set_note that returned last leaves the store as that one left it.
C15_SetNoteSameIsNoOp ==
  [][ (op = "idle" /\ op' = "set_note" /\ inp'.uuid \in TaskIds
         /\ inp'.note.type \in {"str", "unicode"}) =>
        /\ TextOf(inp'.note) = ReadBack(notes, inp'.uuid) =>
             notes' = notes /\ StoreEvents(io') = {}
        /\ (lastNote[inp'.uuid].set /\ lastNote[inp'.uuid].note = inp'.note) =>
             notes' = notes ]_vars

\* a set_note of the very note the note file holds: the file was read and
\* nothing else was done
C15_Witness ==
  /\ op = "set_note"
  /\ err = NoErr
  /\ inp.uuid \in TaskIds
  /\ InkIn(inp.note)
  /\ notes.files[inp.uuid].exists
  /\ TextOf(inp.note) = ReadBack(notes, inp.uuid)
  /\ \E q \in 1..Len(io) : io[q] = ReadNote(inp.uuid)
  /\ StoreEvents(io) = {}

\* C16: a get_note() that returns returns the absent sentinel exactly when
\* the task has no uuid, and then it asks nothing of the command runner and
\* reads nothing; for a task with a uuid it returns a text: the UTF-8 decoding
\* of the bytes of the note file when that file exists, the empty text when
\* it does not; and it does return whenever the data location is found.
C16_GetNoteSentinel ==
  op = "get_note" =>
    /\ inp.uuid = NoUuid => err = NoErr /\ ret = RetNone /\ io = <<>>
    /\ (inp.uuid # NoUuid /\ err = NoErr) =>
         /\ ret.kind = "text"
         /\ ret # RetNone
         /\ notes.files[inp.uuid].exists =>
              /\ ret.text = Utf8Decode(notes.files[inp.uuid].bytes)
              /\ Utf8Encode(ret.text) = notes.files[inp.uuid].bytes
              /\ ret.text # <<>>
         /\ ~notes.files[inp.uuid].exists => ret.text = <<>>
    /\ (inp.uuid # NoUuid /\ inp.show = "ok") => err = NoErr
    /\ (err = NoErr /\ ret = RetNone) => inp.uuid = NoUuid

\* a get_note() of a task without uuid that returned the absent sentinel,
\* with a note file in the store
C16_Witness ==
  /\ op = "get_note"
  /\ inp.uuid = NoUuid
  /\ err = NoErr
  /\ ret = RetNone
  /\ ret # RetText(<<>>)
  /\ \E u \in TaskIds : notes.files[u].exists

\* C17: set_note on a task without uuid raises the PreconditionError,
\* whatever the note is; set_note of a value that is not a text on a task
\* with a uuid raises the error for a non-textual note; in both cases nothing
\* is asked of the command runner and the note store is what it was: folder
\* not created, no note file created, overwritten or deleted.
C17_SetNoteErrors ==
  [][ (op = "idle" /\ op' = "set_note") =>
        /\ inp'.uuid = NoUuid => err' = PreconditionError
        /\ (inp'.uuid # NoUuid /\ inp'.note.type \notin {"str", "unicode"}) =>
             err' = NoteTypeError
        /\ (inp'.uuid = NoUuid \/ inp'.note.type \notin {"str", "unicode"}) =>
             /\ err' \in {PreconditionError, NoteTypeError}
             /\ err'.kind \in {"RuntimeError", "ValueError"}
             /\ notes' = notes
             /\ io' = <<>>
             /\ lastNote' = lastNote ]_vars

\* a set_note of a non-text on a task with a uuid, refused while the notes
\* folder does not exist yet
C17_Witness ==
  /\ op = "set_note"
  /\ inp.uuid \in TaskIds
  /\ inp.note.type = "other"
  /\ err = NoteTypeError
  /\ ~notes.folder
  /\ io = <<>>

\* ------------------------------------------------- Task entity: the runtime
\* Time is counted in half seconds, so that time.time() can fall between two
\* whole seconds: the clock reads now2 / 2.
MaxRuntime == 3725     \* seconds of runtime followed from either end of the hour wrap
HourWrap == 216000     \* 60 hours, where the hours of the format wrap

Digit(n) == <<"0", "1", "2", "3", "4", "5", "6", "7", "8", "9">>[n + 1]

DigitVal(c) == CHOOSE n \in 0..9 : Digit(n) = c

RECURSIVE ParseInt(_)
\* int(self["start"]) of a string of digits
ParseInt(s) ==
  IF s = <<>> THEN 0
  ELSE 10 * ParseInt(SubSeq(s, 1, Len(s) - 1)) + DigitVal(s[Len(s)])

\* int(duration): the float duration2 / 2 cut towards zero
IntOf(duration2) ==
  IF duration2 >= 0 THEN duration2 \div 2 ELSE 0 - ((0 - duration2) \div 2)

\* Task.get_current_runtime of a task with the given fields
GetCurrentRuntimeOf(task, now2) ==
  IF "start" \notin DOMAIN task \/ task["start"] = <<>> THEN 0
  ELSE IntOf(now2 - 2 * ParseInt(task["start"]))

RECURSIVE Unsigned(_)
\* "%u" of a number that is not negative
Unsigned(n) ==
  IF n < 10 THEN <<Digit(n)>> ELSE Unsigned(n \div 10) \o <<Digit(n % 10)>>

\* "%02u"
Unsigned2(n) == IF n < 10 THEN <<"0", Digit(n)>> ELSE Unsigned(n)

\* a format whose hours wrap at a day
FormatCurrentRuntimeDaily(task, now2) ==
  LET duration == GetCurrentRuntimeOf(task, now2)
  IN Unsigned((duration \div 3600) % 24) \o <<":">>
       \o Unsigned2((duration \div 60) % 60) \o <<":">> \o Unsigned2(duration % 60)

\* Task.format_current_runtime
FormatCurrentRuntimeOf(task, now2) ==
  LET duration == GetCurrentRuntimeOf(task, now2)
      seconds == duration % 60
      minutes == (duration \div 60) % 60
      hours == (duration \div 3600) % 60
  IN Unsigned(hours) \o <<":">> \o Unsigned2(minutes) \o <<":">> \o Unsigned2(seconds)

\* the tasks whose runtime is asked for: inactive (no start, an empty start)
\* and started at the second 0 or 60
RuntimeTasks ==
  { Put(EmptyTask, "uuid", <<"u1">>),
    Put(Put(EmptyTask, "uuid", <<"u1">>), "start", <<>>),
    Put(Put(EmptyTask, "uuid", <<"u1">>), "start", <<"0">>),
    Put(Put(EmptyTask, "uuid", <<"u1">>), "start", <<"6", "0">>) }

\* the readings of the clock: the first MaxRuntime seconds and the same
\* stretch one wrap of the hours later, on the second and half a second after
ClockReadings ==
  { 2 * t + h : t \in (0..MaxRuntime) \cup (HourWrap..(HourWrap + MaxRuntime)),
                h \in {0, 1} }

RetInt(n) == [kind |-> "int", text |-> <<n>>, coll |-> NoColl]

\* a call of Task.get_current_runtime
GetCurrentRuntime ==
  /\ op = "idle"
  /\ \E task \in RuntimeTasks, now2 \in ClockReadings :
       /\ op' = "get_current_runtime"
       /\ inp' = [task |-> task, now2 |-> now2]
       /\ ret' = RetInt(GetCurrentRuntimeOf(task, now2))
       /\ err' = NoErr
       /\ io' = <<>>
       /\ UNCHANGED <<pending, completed, _tasks, nloads, discarded, notes, lastNote>>
       /\ UNCHANGED pollvars

\* a call of Task.format_current_runtime
FormatCurrentRuntime ==
  /\ op = "idle"
  /\ \E task \in RuntimeTasks, now2 \in ClockReadings :
       /\ op' = "format_current_runtime"
       /\ inp' = [task |-> task, now2 |-> now2]
       /\ ret' = RetText(FormatCurrentRuntimeOf(task, now2))
       /\ err' = NoErr
       /\ io' = <<>>
       /\ UNCHANGED <<pending, completed, _tasks, nloads, discarded, notes, lastNote>>
       /\ UNCHANGED pollvars

NextRuntime ==
  \/ GetCurrentRuntime
  \/ FormatCurrentRuntime
  \/ Return

SpecRuntime == InitMut /\ [][NextRuntime]_vars

\* the task of the call is active, and the whole seconds elapsed since its
\* start
Active(task) == "start" \in DOMAIN task /\ task["start"] # <<>>
Elapsed(task, now2) == (now2 - 2 * ParseInt(task["start"])) \div 2

\* H:MM:SS of s seconds as the claim words it
Clock(s) ==
  LET H == (s \div 3600) % 60
      MM == (s \div 60) % 60
      SS == s % 60
  IN (IF H < 10 THEN <<Digit(H)>> ELSE <<Digit(H \div 10), Digit(H % 10)>>)
     \o <<":", Digit(MM \div 10), Digit(MM % 10), ":", Digit(SS \div 10), Digit(SS % 10)>>

\* C18: for an active task with s >= 0 whole seconds elapsed, the runtime is
\* s and formatted_runtime is H:MM:SS with H = (s // 3600) % 60 unpadded,
\* MM = (s // 60) % 60 and SS = s % 60 on two digits: 125 gives 0:02:05,
\* 3725 gives 1:02:05, and s and s + 216000 give the same text; an inactive
\* task has runtime 0 and formats as 0:00:00.
C18_FormattedRuntime ==
  op \in {"get_current_runtime", "format_current_runtime"} =>
    LET s == Elapsed(inp.task, inp.now2)
    IN /\ (op = "get_current_runtime" /\ ~Active(inp.task)) => ret = RetInt(0)
       /\ (op = "get_current_runtime" /\ Active(inp.task) /\ s >= 0) => ret = RetInt(s)
       /\ (op = "format_current_runtime" /\ ~Active(inp.task)) =>
            ret = RetText(<<"0", ":", "0", "0", ":", "0", "0">>)
       /\ (op = "format_current_runtime" /\ Active(inp.task) /\ s >= 0) =>
            /\ ret = RetText(Clock(s))
            /\ s = 125 => ret.text = <<"0", ":", "0", "2", ":", "0", "5">>
            /\ s = 3725 => ret.text = <<"1", ":", "0", "2", ":", "0", "5">>
            /\ s >= HourWrap => ret.text = Clock(s - HourWrap)
            /\ Len(ret.text) \in {7, 8}

\* 60 hours, 1 hour, 2 minutes and 5 seconds of runtime formatted as 1:02:05
C18_Witness ==
  /\ op = "format_current_runtime"
  /\ Active(inp.task)
  /\ Elapsed(inp.task, inp.now2) = HourWrap + 3725
  /\ ret.text = <<"1", ":", "0", "2", ":", "0", "5">>

\* what C19 says of modified_since and of the cache between two refreshes:
\* modified_since(t) answers whether the modification time of the pending
\* file is strictly greater than t and leaves the cache alone; as long as no
\* refresh() is made a Loaded cache keeps its collection, the one get_tasks()
\* returns
PollingSafety ==
  /\ [][ (op = "idle" /\ op' = "modified_since" /\ pending.exists) =>
           /\ err' = NoErr
           /\ ret' = RetBool(mtime > inp'.ts)
           /\ _tasks' = _tasks /\ nloads' = nloads /\ seen' = seen ]_vars
  /\ [][ (_tasks.loaded /\ op' # "refresh") =>
           /\ _tasks' = _tasks /\ seen' = seen
           /\ (op = "idle" /\ op' = "get_tasks") => ret' = RetColl(_tasks) ]_vars

\* get_tasks() returns a collection loaded after the v-th rewrite of the
\* pending file (refresh() returns what its get_tasks() returns)
FreshSince(v) ==
  /\ op \in {"get_tasks", "refresh"}
  /\ err = NoErr
  /\ _tasks.loaded
  /\ ret = RetColl(_tasks)
  /\ seen >= v

\* C19 as stated: under the poller every rewrite of the pending file is
\* eventually followed by a get_tasks() that returns a collection loaded
\* after it.
C19_EveryChangeCaught ==
  /\ PollingSafety
  /\ \A v \in 1..MaxWrites : (ver = v) ~> FreshSince(v)

\* C19 amended: under the poller every rewrite of the pending file that
\* leaves it with a modification time strictly greater than the time the
\* poller noted at its last refresh is eventually followed by a get_tasks()
\* that returns a collection loaded after it (a rewrite stamped with the very
\* reading of the clock the poller noted is not seen by modified_since).
C19_LaterChangeCaught ==
  /\ PollingSafety
  /\ \A v \in 1..MaxWrites : (ver = v /\ mtime > ts) ~> FreshSince(v)

\* the poller's refresh() after the second rewrite of the pending file: the
\* stale collection dropped, the new one loaded after the rewrite
C19_Witness ==
  /\ op = "refresh"
  /\ err = NoErr
  /\ ver = 2
  /\ seen = ver
  /\ ts = clock
  /\ mtime <= ts
  /\ discarded # {}
  /\ ret = RetColl(_tasks)

\* the errors a load of the Task Collection can end with
LoadErrors ==
  {RunnerError, ConfigError, FormatError("pending.data"), FormatError("completed.data")}

\* C20: a get_tasks() or refresh() whose load fails raises the error of the
\* load (a FormatError, a failure of the command runner, the data location
\* not found), returns nothing and leaves the cache Empty, however far the
\* load had got; a collection cached before a failed refresh() is dropped
\* and never returned again; and a get_tasks() on the Empty cache makes a full
\* load again, from the `task _show` request on.
C20_FailedLoadLeavesEmpty ==
  /\ [][ (op = "idle" /\ op' \in {"get_tasks", "refresh"} /\ err' # NoErr) =>
           /\ err' \in LoadErrors
           /\ ret' = RetNone
           /\ _tasks' = NoColl
           /\ (op' = "get_tasks") => ~_tasks.loaded
           /\ (op' = "refresh" /\ _tasks.loaded) => _tasks.id \in discarded' ]_vars
  /\ [][ (op = "idle" /\ op' = "get_tasks" /\ ~_tasks.loaded) =>
           /\ nloads' = nloads + 1
           /\ io' # <<>> /\ io'[1] = ShowCmd
           /\ err' = NoErr => _tasks'.loaded /\ _tasks'.id = nloads' ]_vars
  /\ [](_tasks.loaded => _tasks.id \notin discarded)

\* a refresh() of a Loaded cache that failed on the export request for the
\* completed file, the pending file read and merged by then
C20_Witness ==
  /\ op = "refresh"
  /\ err = RunnerError
  /\ \E q \in 1..Len(io) : io[q] = Read("completed.data")
  /\ Cardinality(Exports(io)) = 2
  /\ discarded # {}
  /\ _tasks = NoColl
====
